---- MODULE Spec2Model ----
(***************************************************************************)
(* A state-machine model of TPPLLMEmbeddingRunner                          *)
(* (src/src/tpp_llm_embedding/runner.py): the runner's fields, the model's *)
(* parameters and gradients, and the three methods run_batch, run_epoch    *)
(* and run.  run and run_epoch are loops, so the model keeps the position  *)
(* of each (run_frame, epoch_frame) and takes one step per batch, per      *)
(* epoch entry and per epoch return.                                       *)
(***************************************************************************)
EXTENDS Integers, Sequences, FiniteSets, TLC

\* ------------------------------------------------------------------ bounds

\* Largest number of batches a data loader yields.
MaxBatches == 2
\* Largest num_train_epochs passed to run.
MaxEpochs == 2
\* evaluate_similarities returns cosine_mrr in 0..MaxMrr.
MaxMrr == 1
\* warmup_ratio ranges over the floats k / d for d in 1..WarmupDen, k in 0..d.
WarmupDen == 10
\* The number of batches of a long training loader, which run's set-up is also
\* called with.
LongLoader == 45
\* Largest number of top-level calls made on one runner under SpecCalls.
MaxCalls == 2

\* ------------------------------------------------------------------ values

\* Python's None (an absent data loader, optimizer, scheduler or metrics).
None == [none |-> TRUE]

\* A data loader is None or an object with a length (its number of batches).
DataLoaders == {None} \cup {[len |-> n] : n \in 0..MaxBatches}

\* "if dataloader:" is the truth value of the object: None is false, and a
\* DataLoader, which defines __len__, is false when it has no batches.
Truthy(dataloader) == dataloader # None /\ dataloader.len > 0

\* The branches of run's scheduler selection.
KnownSchedulerTypes == {"constant", "constant_with_warmup", "linear", "cosine"}

\* The scheduler types run is called with: the four known ones and another.
SchedulerTypes == KnownSchedulerTypes \cup {"polynomial"}

\* The phases run_batch is called with: its two branches and another.
Phases == {"train", "eval", "test"}

\* warmup_ratio values in [0, 1]: [num |-> k, den |-> d] is the float nearest
\* to k / d, which is what the literal or the quotient k / d evaluates to.
WarmupRatios == {r \in [num : 0..WarmupDen, den : 1..WarmupDen] : r.num <= r.den}

\* The training loaders run's set-up is called with.
SetupLoaders == DataLoaders \cup {[len |-> LongLoader]}

\* evaluate_similarities is imported from tpp_llm_embedding.evaluation; all the
\* runner reads of its result is metrics['cosine_mrr'].
MrrValues == 0..MaxMrr

\* ------------------------------------------------------------------- state

VARIABLES
    num_train_epochs,    \* self.num_train_epochs
    num_training_steps,  \* self.num_training_steps
    num_warmup_steps,    \* self.num_warmup_steps
    global_step,         \* self.global_step
    scheduler,           \* self.scheduler: None or [kind, warmup, total, optimizer, last_epoch]
    optimizer,           \* self.optimizer: None or [id, step_count]
    model,               \* self.model: [params, grads, training]
    pc,                  \* the executing top-level call: "idle", "run", "run_epoch"
    run_frame,           \* the locals and position of run, or None
    epoch_frame,         \* the locals and position of run_epoch, or None
    result,              \* how the latest top-level call ended ("none" before any)
    ncalls,              \* top-level calls made so far
    call,                \* the latest top-level call and its arguments, or None
    last_batch,          \* what the run_batch call of the latest step did, or None
    epoch_result,        \* the concatenations and metrics of the latest run_epoch return, or None
    trace,               \* run_batch and evaluate_similarities calls of the current top-level call
    val_history          \* the validation results (metrics_val) of the current run

self_vars == <<num_train_epochs, num_training_steps, num_warmup_steps, global_step,
               scheduler, optimizer>>
vars == <<num_train_epochs, num_training_steps, num_warmup_steps, global_step,
          scheduler, optimizer, model, pc, run_frame, epoch_frame, result, ncalls,
          call, last_batch, epoch_result, trace, val_history>>

\* __init__: the counters are 0, there is no optimizer and no scheduler.  A
\* new nn.Module is in training mode and its parameters have no gradients.
Init ==
    /\ num_train_epochs = 0
    /\ num_training_steps = 0
    /\ num_warmup_steps = 0
    /\ global_step = 0
    /\ scheduler = None
    /\ optimizer = None
    /\ model = [params |-> 0, grads |-> "none", training |-> TRUE]
    /\ pc = "idle"
    /\ run_frame = None
    /\ epoch_frame = None
    /\ result = "none"
    /\ ncalls = 0
    /\ call = None
    /\ last_batch = None
    /\ epoch_result = None
    /\ trace = <<>>
    /\ val_history = <<>>

\* ---------------------------------------------------------------- run_batch

\* What run_batch reads and writes: the runner's fields and the model, with
\* the sequence of the calls it makes (empty when it starts).
Snapshot ==
    [global_step |-> global_step, optimizer |-> optimizer, scheduler |-> scheduler,
     model |-> model, calls |-> <<>>]

\* self.model(inputs=..., input_type=...): one embedding row per example; a
\* batch holds one example, named by the batch.
Forward(input_type, batch) == << <<input_type, batch>> >>

\* self.model.train() and self.model.eval(): the module's training flag.
model_train(s) == [s EXCEPT !.model.training = TRUE, !.calls = Append(@, "model.train")]
model_eval(s) == [s EXCEPT !.model.training = FALSE, !.calls = Append(@, "model.eval")]

\* The two forward passes; the loss of the train branch.
forward(s) == [s EXCEPT !.calls = @ \o <<"forward_text", "forward_event">>]
loss_fn(s) == [s EXCEPT !.calls = Append(@, "loss_fn")]

\* self.optimizer.zero_grad(): the gradients are cleared.
zero_grad(s) == [s EXCEPT !.model.grads = "cleared", !.calls = Append(@, "zero_grad")]

\* loss.backward(): the gradients of the loss are set.
backward(s) == [s EXCEPT !.model.grads = "computed", !.calls = Append(@, "backward")]

\* self.optimizer.step(): one Adam update of the parameters from their gradients.
optimizer_step(s) ==
    [s EXCEPT !.model.params = @ + 1, !.optimizer.step_count = @ + 1,
              !.calls = Append(@, "optimizer.step")]

\* self.scheduler.step(): the schedule advances by one step.
scheduler_step(s) ==
    [s EXCEPT !.scheduler.last_epoch = @ + 1, !.calls = Append(@, "scheduler.step")]

\* self.global_step += 1
increment_global_step(s) == [s EXCEPT !.global_step = @ + 1]

\* train_update with the schedule advanced before the optimizer step.
train_update_scheduler_first(s) ==
    increment_global_step(optimizer_step(scheduler_step(backward(zero_grad(s)))))

\* "Optimize the model parameters" and "Update the learning rate": the
\* statements of the train branch after print(metrics), in their order.
train_update(s) ==
    increment_global_step(scheduler_step(optimizer_step(backward(zero_grad(s)))))

\* The train branch.  The metrics dictionary reads self.optimizer.param_groups
\* (an AttributeError without an optimizer) and divides by
\* self.num_training_steps (a ZeroDivisionError when it is 0) before the
\* update; self.scheduler.step() is an AttributeError without a scheduler,
\* after optimizer.step() has been applied.
run_batch_train(s, batch) ==
    LET s1 == loss_fn(forward(model_train(s)))
    IN  IF s.optimizer = None
        THEN [outcome |-> "AttributeError", state |-> s1, desc |-> <<>>, seq |-> <<>>]
        ELSE IF num_training_steps = 0
        THEN [outcome |-> "ZeroDivisionError", state |-> s1, desc |-> <<>>, seq |-> <<>>]
        ELSE IF s.scheduler = None
        THEN [outcome |-> "AttributeError",
              state |-> optimizer_step(backward(zero_grad(s1))),
              desc |-> <<>>, seq |-> <<>>]
        ELSE [outcome |-> "ok", state |-> train_update(s1),
              desc |-> Forward("text", batch), seq |-> Forward("event", batch)]

\* run_batch_eval counting the batch as a step.
run_batch_eval_counting(s, batch) ==
    [outcome |-> "ok", state |-> increment_global_step(forward(model_eval(s))),
     desc |-> Forward("text", batch), seq |-> Forward("event", batch)]

\* The eval branch: both forward passes under torch.no_grad(), no update.
run_batch_eval(s, batch) ==
    [outcome |-> "ok", state |-> forward(model_eval(s)),
     desc |-> Forward("text", batch), seq |-> Forward("event", batch)]

\* run_batch_unknown falling into the eval branch.
run_batch_unknown_as_eval(s, batch) ==
    [outcome |-> "ok", state |-> forward(model_eval(s)),
     desc |-> Forward("text", batch), seq |-> Forward("event", batch)]

\* The else branch: raise KeyError(f'Unknown phase: {phase}.').
run_batch_unknown(s, batch) ==
    [outcome |-> "KeyError_phase", state |-> s, desc |-> <<>>, seq |-> <<>>]

\* run_batch(batch, phase): the result of the call from state s.
run_batch(s, batch, phase) ==
    IF phase = "train" THEN run_batch_train(s, batch)
    ELSE IF phase = "eval" THEN run_batch_eval(s, batch)
    ELSE run_batch_unknown(s, batch)

\* The state after a run_batch call that gave r, and the record of the call.
ApplyBatch(r, phase) ==
    /\ global_step' = r.state.global_step
    /\ optimizer' = r.state.optimizer
    /\ scheduler' = r.state.scheduler
    /\ model' = r.state.model
    /\ last_batch' = [phase |-> phase, outcome |-> r.outcome, calls |-> r.state.calls,
                      before |-> Snapshot, desc |-> r.desc, seq |-> r.seq]
    /\ UNCHANGED <<num_train_epochs, num_training_steps, num_warmup_steps>>

\* A direct call of run_batch on the runner.
CallRunBatch ==
    \E phase \in Phases :
        LET r == run_batch(Snapshot, 0, phase)
        IN  /\ pc = "idle"
            /\ ncalls < MaxCalls
            /\ ApplyBatch(r, phase)
            /\ result' = r.outcome
            /\ ncalls' = ncalls + 1
            /\ call' = [op |-> "run_batch", phase |-> phase]
            /\ trace' = <<>>
            /\ val_history' = <<>>
            /\ epoch_result' = None
            /\ run_frame' = None
            /\ UNCHANGED <<pc, epoch_frame>>

\* ---------------------------------------------------------------- run_epoch

\* desc_embeddings = [], seq_embeddings = [] and the position before the first
\* batch of a loader of `len` batches.
NewEpoch(caller, dl, phase, len) ==
    [caller |-> caller, dl |-> dl, phase |-> phase, len |-> len, i |-> 0,
     desc_embeddings |-> <<>>, seq_embeddings |-> <<>>]

\* torch.cat(list, dim=0) of a non-empty list: the rows of its tensors in order.
RECURSIVE torch_cat(_)
torch_cat(list) ==
    IF list = <<>> THEN <<>> ELSE Head(list) \o torch_cat(Tail(list))

\* metrics = {} of a train epoch.
EmptyMetrics == [empty |-> TRUE]

\* NextPosition with the test epoch before the validation epoch.
NextPositionTestFirst(frame) ==
    CASE frame.stage = "init_val" -> [frame EXCEPT !.stage = "init_test"]
      [] frame.stage = "init_test" ->
            IF num_train_epochs > 0
            THEN [frame EXCEPT !.stage = "train", !.epoch = 0]
            ELSE [frame EXCEPT !.stage = "end"]
      [] frame.stage = "train" -> [frame EXCEPT !.stage = "test"]
      [] frame.stage = "test" -> [frame EXCEPT !.stage = "val"]
      [] frame.stage = "val" ->
            IF frame.epoch + 1 < num_train_epochs
            THEN [frame EXCEPT !.stage = "train", !.epoch = @ + 1]
            ELSE [frame EXCEPT !.stage = "end"]

\* The position after the current stage of run: the initial validation, the
\* initial test, then train, val, test for each epoch in
\* range(self.num_train_epochs).
NextPosition(frame) ==
    CASE frame.stage = "init_val" -> [frame EXCEPT !.stage = "init_test"]
      [] frame.stage = "init_test" ->
            IF num_train_epochs > 0
            THEN [frame EXCEPT !.stage = "train", !.epoch = 0]
            ELSE [frame EXCEPT !.stage = "end"]
      [] frame.stage = "train" -> [frame EXCEPT !.stage = "val"]
      [] frame.stage = "val" -> [frame EXCEPT !.stage = "test"]
      [] frame.stage = "test" ->
            IF frame.epoch + 1 < num_train_epochs
            THEN [frame EXCEPT !.stage = "train", !.epoch = @ + 1]
            ELSE [frame EXCEPT !.stage = "end"]

\* The data loader run reads at a stage.
StageLoader(frame) ==
    CASE frame.stage \in {"init_val", "val"} -> frame.dataloader_val
      [] frame.stage \in {"init_test", "test"} -> frame.dataloader_test
      [] frame.stage = "train" -> frame.dataloader_train

\* The name of that loader and the phase run passes to run_epoch.
StageName(frame) ==
    CASE frame.stage \in {"init_val", "val"} -> "val"
      [] frame.stage \in {"init_test", "test"} -> "test"
      [] frame.stage = "train" -> "train"
StagePhase(frame) == IF frame.stage = "train" THEN "train" ELSE "eval"

\* UpdateBest replacing the best result on a tie too.
UpdateBestOnTie(frame, metrics) ==
    CASE frame.stage = "init_val" -> [frame EXCEPT !.metrics_val_best = metrics]
      [] frame.stage = "val" ->
            IF frame.metrics_val_best # None
               /\ metrics.cosine_mrr >= frame.metrics_val_best.cosine_mrr
            THEN [frame EXCEPT !.metrics_val_best = metrics]
            ELSE frame
      [] OTHER -> frame

\* What run does with the metrics of an epoch: the initial validation result
\* becomes the best one, a later validation result replaces the best one when
\* its cosine_mrr is greater.
UpdateBest(frame, metrics) ==
    CASE frame.stage = "init_val" -> [frame EXCEPT !.metrics_val_best = metrics]
      [] frame.stage = "val" ->
            IF frame.metrics_val_best # None
               /\ metrics.cosine_mrr > frame.metrics_val_best.cosine_mrr
            THEN [frame EXCEPT !.metrics_val_best = metrics]
            ELSE frame
      [] OTHER -> frame

\* run moves to the position `frame`; past the last stage it returns.
Continue(frame) ==
    /\ run_frame' = frame
    /\ pc' = IF frame.stage = "end" THEN "idle" ELSE "run"
    /\ result' = IF frame.stage = "end" THEN "ok" ELSE result

\* An exception leaves every executing call.
Raise(error) ==
    /\ pc' = "idle"
    /\ result' = error
    /\ epoch_frame' = None
    /\ run_frame' = IF run_frame = None THEN None
                    ELSE [run_frame EXCEPT !.stage = "raised"]

\* One iteration of "for batch in tqdm(dataloader)": run_batch on the next
\* batch, and its embeddings appended to the two lists.
EpochBatch ==
    /\ pc \in {"run", "run_epoch"}
    /\ epoch_frame # None
    /\ epoch_frame.i < epoch_frame.len
    /\ LET r == run_batch(Snapshot, epoch_frame.i, epoch_frame.phase)
       IN  /\ ApplyBatch(r, epoch_frame.phase)
           /\ IF r.outcome = "ok"
              THEN /\ epoch_frame' =
                       [epoch_frame EXCEPT !.i = @ + 1,
                                           !.desc_embeddings = Append(@, r.desc),
                                           !.seq_embeddings = Append(@, r.seq)]
                   /\ trace' = Append(trace,
                          [op |-> "run_batch", dl |-> epoch_frame.dl,
                           phase |-> epoch_frame.phase, batch |-> epoch_frame.i])
                   /\ UNCHANGED <<pc, result, run_frame>>
              ELSE /\ Raise(r.outcome)
                   /\ UNCHANGED trace
    /\ UNCHANGED <<ncalls, call, epoch_result, val_history>>

\* After the loop: torch.cat of the two lists (a RuntimeError on an empty
\* list), evaluate_similarities on the concatenations when phase is 'eval',
\* {} otherwise, and the return to the caller.
EpochReturn ==
    /\ pc \in {"run", "run_epoch"}
    /\ epoch_frame # None
    /\ epoch_frame.i = epoch_frame.len
    /\ last_batch' = None
    /\ UNCHANGED <<self_vars, model, ncalls, call>>
    /\ IF epoch_frame.desc_embeddings = <<>>
       THEN /\ Raise("RuntimeError")
            /\ UNCHANGED <<epoch_result, trace, val_history>>
       ELSE \E mrr \in (IF epoch_frame.phase = "eval" THEN MrrValues ELSE {0}) :
            LET desc == torch_cat(epoch_frame.desc_embeddings)
                seq == torch_cat(epoch_frame.seq_embeddings)
                metrics == IF epoch_frame.phase = "eval"
                           THEN [cosine_mrr |-> mrr, at |-> Len(trace)]
                           ELSE EmptyMetrics
            IN  /\ trace' = IF epoch_frame.phase = "eval"
                            THEN Append(trace,
                                   [op |-> "evaluate_similarities", dl |-> epoch_frame.dl,
                                    phase |-> epoch_frame.phase, batch |-> epoch_frame.len])
                            ELSE trace
                /\ epoch_result' = [phase |-> epoch_frame.phase, dl |-> epoch_frame.dl,
                                    len |-> epoch_frame.len, metrics |-> metrics,
                                    desc_embeddings |-> desc, seq_embeddings |-> seq]
                /\ epoch_frame' = None
                /\ IF epoch_frame.caller = "run"
                   THEN /\ Continue(NextPosition(UpdateBest(run_frame, metrics)))
                        /\ val_history' =
                               IF run_frame.stage \in {"init_val", "val"}
                               THEN Append(val_history, metrics)
                               ELSE val_history
                   ELSE /\ pc' = "idle"
                        /\ result' = "ok"
                        /\ UNCHANGED <<run_frame, val_history>>

\* A direct call of run_epoch on the runner, with a loader of B batches.
CallRunEpoch ==
    \E B \in 0..MaxBatches, phase \in Phases :
        /\ pc = "idle"
        /\ ncalls < MaxCalls
        /\ pc' = "run_epoch"
        /\ epoch_frame' = NewEpoch("direct", "direct", phase, B)
        /\ ncalls' = ncalls + 1
        /\ call' = [op |-> "run_epoch", phase |-> phase, len |-> B]
        /\ result' = "running"
        /\ run_frame' = None
        /\ last_batch' = None
        /\ epoch_result' = None
        /\ trace' = <<>>
        /\ val_history' = <<>>
        /\ UNCHANGED <<self_vars, model>>

\* ---------------------------------------------------------------------- run

\* self.num_train_epochs * len(dataloader_train)
TrainingSteps(epochs, dataloader_train) == epochs * dataloader_train.len

\* Python floats are IEEE-754 binary64 numbers: 53 significant bits. A float
\* x > 0 is modelled as [mant, scale]: mant is the sequence of its Precision
\* significant bits, first bit 1, most significant first, and x is the number
\* these bits spell divided by 2^scale. cmp tells how the float compares with
\* the exact value it was rounded from.
Precision == 53

\* Arithmetic on bit sequences goes by groups of Limb bits, which keeps every
\* intermediate number small.
Limb == 8

Min(a, b) == IF a <= b THEN a ELSE b

\* The w lowest bits of the natural number v, most significant first.
FixedBits(v, w) == [i \in 1..w |-> (v \div 2^(w - i)) % 2]

\* The number of bits of the natural number q < 2^30 (0 for 0).
BitLength(q) == CHOOSE k \in 0..30 : q < 2^k /\ (k = 0 \/ 2^(k - 1) <= q)

\* The bits of the natural number q, most significant first (none for 0).
IntBits(q) == FixedBits(q, BitLength(q))

\* The natural number the bits spell.
RECURSIVE BitsToInt(_)
BitsToInt(bits) ==
    IF Len(bits) <= 1 THEN (IF bits = <<>> THEN 0 ELSE bits[1])
    ELSE LET half == Len(bits) \div 2
         IN  BitsToInt(SubSeq(bits, 1, Len(bits) - half)) * 2^half
                 + BitsToInt(SubSeq(bits, Len(bits) - half + 1, Len(bits)))

\* The bits of the number after the one the bits spell: the last 0 becomes 1
\* and the 1s after it 0; with no 0, a 1 and as many 0s as there were bits.
Increment(bits) ==
    LET zeros == {i \in 1..Len(bits) : bits[i] = 0}
    IN  IF zeros = {}
        THEN <<1>> \o [i \in 1..Len(bits) |-> 0]
        ELSE LET last == CHOOSE i \in zeros : \A j \in zeros : j <= i
             IN  [i \in 1..Len(bits) |->
                     IF i < last THEN bits[i] ELSE IF i = last THEN 1 ELSE 0]

\* The float nearest to (the number bits spell, plus a positive amount below one
\* unit of the last bit when inexact) / 2^scale: round to nearest, ties to even.
RoundToNearestEven(bits, inexact, scale) ==
    LET L == Len(bits)
    IN  IF L <= Precision
        THEN [mant |-> bits \o [i \in 1..(Precision - L) |-> 0],
              scale |-> scale + (Precision - L),
              cmp |-> IF inexact THEN "below" ELSE "exact"]
        ELSE LET kept == SubSeq(bits, 1, Precision)
                 guard == bits[Precision + 1]
                 sticky == inexact \/ \E i \in (Precision + 2)..L : bits[i] = 1
                 sc == scale - (L - Precision)
                 up == guard = 1 /\ (sticky \/ kept[Precision] = 1)
                 k == Increment(kept)
             IN  IF guard = 0 /\ ~sticky
                 THEN [mant |-> kept, scale |-> sc, cmp |-> "exact"]
                 ELSE IF ~up
                 THEN [mant |-> kept, scale |-> sc, cmp |-> "below"]
                 ELSE IF Len(k) > Precision
                 THEN [mant |-> SubSeq(k, 1, Precision), scale |-> sc - 1,
                       cmp |-> "above"]
                 ELSE [mant |-> k, scale |-> sc, cmp |-> "above"]

\* The next count bits of the binary expansion of rem / den < 1, by long
\* division, and the remainder left after them.
RECURSIVE LongDivision(_, _, _)
LongDivision(rem, den, count) ==
    IF count = 0 THEN [bits |-> <<>>, rem |-> rem]
    ELSE LET w == Min(count, Limb)
             rest == LongDivision((rem * 2^w) % den, den, count - w)
         IN  [bits |-> FixedBits((rem * 2^w) \div den, w) \o rest.bits,
              rem |-> rest.rem]

\* The number of 0s the binary expansion of rem / den starts with, 0 < rem < den.
RECURSIVE LeadingZeros(_, _)
LeadingZeros(rem, den) ==
    IF 2 * rem >= den THEN 0 ELSE 1 + LeadingZeros(2 * rem, den)

\* The float a warmup_ratio of num / den > 0 is: the one nearest to it. The
\* expansion of num / den is taken from its first 1 to one bit more than a
\* float keeps, and rounded.
Float(num, den) ==
    LET whole == IntBits(num \div den)
        zeros == IF whole = <<>> THEN LeadingZeros(num % den, den) ELSE 0
        count == IF Len(whole) > Precision THEN 0 ELSE Precision + 1 - Len(whole)
        q == LongDivision((num % den) * 2^zeros, den, count)
    IN  RoundToNearestEven(whole \o q.bits, q.rem # 0, zeros + count)

\* The bits of n times the number the bits spell, plus carry: the lowest bits
\* are multiplied first, and what exceeds them is carried into the next ones.
RECURSIVE Times(_, _, _)
Times(bits, n, carry) ==
    IF bits = <<>> THEN IntBits(carry)
    ELSE LET w == Min(Len(bits), Limb)
             t == BitsToInt(SubSeq(bits, Len(bits) - w + 1, Len(bits))) * n + carry
         IN  Times(SubSeq(bits, 1, Len(bits) - w), n, t \div 2^w)
                 \o FixedBits(t % 2^w, w)

\* x * n for a float x > 0 and an int n > 0: the float nearest to the product.
float_mul(x, n) == RoundToNearestEven(Times(x.mant, n, 0), FALSE, x.scale)

\* int(x) for a float x > 0: its whole part.
int_trunc(x) ==
    IF x.scale <= 0 THEN BitsToInt(x.mant) * 2^(0 - x.scale)
    ELSE IF x.scale >= Precision THEN 0
    ELSE BitsToInt(SubSeq(x.mant, 1, Precision - x.scale))

\* int(x) rounding x up: its whole part, and one more unless x is whole.
int_ceil(x) ==
    IF x.scale <= 0 \/ \A i \in 1..Precision : i > Precision - x.scale => x.mant[i] = 0
    THEN int_trunc(x)
    ELSE int_trunc(x) + 1

\* The magnitude of n: the sign of a product is that of its int factor.
Abs(n) == IF n < 0 THEN 0 - n ELSE n

\* WarmupSteps rounding the product up.
WarmupStepsRoundedUp(warmup_ratio, steps) ==
    IF warmup_ratio.num = 0 \/ steps = 0 THEN 0
    ELSE LET magnitude ==
                 int_ceil(float_mul(Float(warmup_ratio.num, warmup_ratio.den), Abs(steps)))
         IN  IF steps < 0 THEN 0 - magnitude ELSE magnitude

\* int(warmup_ratio * self.num_training_steps): the product is the float nearest
\* to the exact one, and int() drops its fraction (towards zero).
WarmupSteps(warmup_ratio, steps) ==
    IF warmup_ratio.num = 0 \/ steps = 0 THEN 0
    ELSE LET magnitude ==
                 int_trunc(float_mul(Float(warmup_ratio.num, warmup_ratio.den), Abs(steps)))
         IN  IF steps < 0 THEN 0 - magnitude ELSE magnitude

\* Adam(params=self.model.parameters(), lr=learning_rate): a new optimizer, which
\* has made no step; id tells the optimizers of different run calls apart.
Adam(id) == [id |-> id, step_count |-> 0]

\* The if/elif chain on lr_scheduler_type: is there a branch for it?
SchedulerKnown(lr_scheduler_type) == lr_scheduler_type \in KnownSchedulerTypes

\* transformers.get_*_schedule*(optimizer=self.optimizer, ...): a new schedule
\* of the requested kind on the new optimizer, with the step counts its
\* factory is given.
get_schedule(lr_scheduler_type, opt, warmup, total) ==
    [kind |-> lr_scheduler_type, optimizer |-> opt.id, last_epoch |-> 0,
     num_warmup_steps |-> IF lr_scheduler_type = "constant" THEN 0 ELSE warmup,
     num_training_steps |->
        IF lr_scheduler_type \in {"linear", "cosine"} THEN total ELSE 0]

\* The data loaders and the other locals of run at "Initial validation".
NewRun(dataloader_train, dataloader_val, dataloader_test) ==
    [dataloader_train |-> dataloader_train, dataloader_val |-> dataloader_val,
     dataloader_test |-> dataloader_test, stage |-> "init_val", epoch |-> 0,
     metrics_val_best |-> None]

\* An exception leaves run: its position is lost, its arguments are kept.
Raised(frame) == [frame EXCEPT !.stage = "raised"]

\* The call of run up to the scheduler selection.  len(None) raises a
\* TypeError after num_train_epochs is stored; an unknown scheduler type
\* raises the KeyError after the counters and the optimizer are stored.
run(dataloader_train, dataloader_val, dataloader_test, lr_scheduler_type, epochs, warmup_ratio) ==
    /\ pc = "idle"
    /\ ncalls' = ncalls + 1
    /\ call' = [op |-> "run", lr_scheduler_type |-> lr_scheduler_type,
                epochs |-> epochs, warmup_ratio |-> warmup_ratio]
    /\ num_train_epochs' = epochs
    /\ last_batch' = None
    /\ epoch_result' = None
    /\ trace' = <<>>
    /\ val_history' = <<>>
    /\ epoch_frame' = None
    /\ UNCHANGED model
    /\ IF dataloader_train = None
       THEN /\ pc' = "idle"
            /\ result' = "TypeError"
            /\ run_frame' = Raised(NewRun(dataloader_train, dataloader_val,
                                          dataloader_test))
            /\ UNCHANGED <<num_training_steps, num_warmup_steps, global_step,
                           optimizer, scheduler>>
       ELSE LET steps == TrainingSteps(epochs, dataloader_train)
                warmup == WarmupSteps(warmup_ratio, steps)
                opt == Adam(ncalls + 1)
            IN  /\ num_training_steps' = steps
                /\ num_warmup_steps' = warmup
                /\ global_step' = 0
                /\ optimizer' = opt
                /\ IF SchedulerKnown(lr_scheduler_type)
                   THEN /\ scheduler' = get_schedule(lr_scheduler_type, opt, warmup, steps)
                        /\ pc' = "run"
                        /\ result' = "running"
                        /\ run_frame' = NewRun(dataloader_train, dataloader_val,
                                               dataloader_test)
                   ELSE /\ scheduler' = scheduler
                        /\ pc' = "idle"
                        /\ result' = "KeyError_scheduler"
                        /\ run_frame' = Raised(NewRun(dataloader_train, dataloader_val,
                                                      dataloader_test))

\* "if dataloader:" holds at the current stage: run calls run_epoch on it.
RunEnterEpoch ==
    /\ pc = "run"
    /\ epoch_frame = None
    /\ Truthy(StageLoader(run_frame))
    /\ epoch_frame' = NewEpoch("run", StageName(run_frame), StagePhase(run_frame),
                               StageLoader(run_frame).len)
    /\ last_batch' = None
    /\ UNCHANGED <<self_vars, model, pc, run_frame, result, ncalls, call,
                   epoch_result, trace, val_history>>

\* "if dataloader:" fails at the current stage: run goes on to the next one.
RunSkipEpoch ==
    /\ pc = "run"
    /\ epoch_frame = None
    /\ ~Truthy(StageLoader(run_frame))
    /\ Continue(NextPosition(run_frame))
    /\ last_batch' = None
    /\ UNCHANGED <<self_vars, model, epoch_frame, ncalls, call, epoch_result,
                   trace, val_history>>

\* warmup_ratio: float = 0, the default.
DefaultWarmupRatio == [num |-> 0, den |-> 1]

\* A call of run on a new runner, with any data loaders, scheduler type and
\* number of epochs, and the default learning rate and warmup ratio.
CallRun ==
    \E dataloader_train \in DataLoaders, dataloader_val \in DataLoaders,
       dataloader_test \in DataLoaders, lr_scheduler_type \in SchedulerTypes,
       epochs \in 0..MaxEpochs :
        /\ ncalls = 0
        /\ run(dataloader_train, dataloader_val, dataloader_test, lr_scheduler_type,
               epochs, DefaultWarmupRatio)

\* A call of run on a new runner, with any training loader, scheduler type,
\* number of epochs and warmup ratio, and no validation or test loader (the
\* defaults).
CallRunWarmup ==
    \E dataloader_train \in SetupLoaders, lr_scheduler_type \in SchedulerTypes,
       epochs \in 0..MaxEpochs, warmup_ratio \in WarmupRatios :
        /\ ncalls = 0
        /\ run(dataloader_train, None, None, lr_scheduler_type, epochs, warmup_ratio)

\* One call of run on a new runner, and its execution.
Next ==
    \/ CallRun
    \/ RunEnterEpoch
    \/ RunSkipEpoch
    \/ EpochBatch
    \/ EpochReturn

Spec == Init /\ [][Next]_vars

\* One call of run with any warmup ratio on a new runner, and its execution.
NextSetup ==
    \/ CallRunWarmup
    \/ RunEnterEpoch
    \/ RunSkipEpoch
    \/ EpochBatch
    \/ EpochReturn

SpecSetup == Init /\ [][NextSetup]_vars

\* A call of run on a runner that may have been used before, with the default
\* learning rate, warmup ratio (0) and test loader (None), and the default
\* scheduler type or an unknown one.
CallRunAgain ==
    \E dataloader_train \in DataLoaders, dataloader_val \in DataLoaders,
       lr_scheduler_type \in {"constant", "polynomial"}, epochs \in 0..MaxEpochs :
        /\ ncalls < MaxCalls
        /\ run(dataloader_train, dataloader_val, None, lr_scheduler_type, epochs,
               DefaultWarmupRatio)

\* Any sequence of calls of run, run_epoch and run_batch on one runner.
NextCalls ==
    \/ CallRunAgain
    \/ CallRunEpoch
    \/ CallRunBatch
    \/ RunEnterEpoch
    \/ RunSkipEpoch
    \/ EpochBatch
    \/ EpochReturn

SpecCalls == Init /\ [][NextCalls]_vars

\* ------------------------------------------------------------------ claims

\* The calls of a run_batch call that touch gradients, parameters or schedule.
UpdateCalls(calls) ==
    SelectSeq(calls, LAMBDA c :
        c \in {"zero_grad", "backward", "optimizer.step", "scheduler.step"})

\* C1: a run_batch call with phase 'train' that returns normally makes exactly
\* one optimizer.step() and one scheduler.step(), in the order zero_grad,
\* backward, optimizer.step, scheduler.step, and leaves global_step one higher.
C1_TrainBatchStepsOnce ==
    (last_batch # None /\ last_batch.phase = "train" /\ last_batch.outcome = "ok") =>
        /\ UpdateCalls(last_batch.calls) =
              <<"zero_grad", "backward", "optimizer.step", "scheduler.step">>
        /\ optimizer.step_count = last_batch.before.optimizer.step_count + 1
        /\ scheduler.last_epoch = last_batch.before.scheduler.last_epoch + 1
        /\ model.params = last_batch.before.model.params + 1
        /\ global_step = last_batch.before.global_step + 1

\* A train batch called directly on a runner that run has set up, and that
\* has trained before, returned normally.
C1_Witness ==
    /\ last_batch # None
    /\ last_batch.phase = "train"
    /\ last_batch.outcome = "ok"
    /\ call.op = "run_batch"
    /\ last_batch.before.global_step > 0

\* C2: a run_batch call with phase 'eval' leaves global_step, the parameters,
\* the gradients, the optimizer and the scheduler as they were, from any state
\* of the runner: it makes no optimizer step, scheduler step or zero_grad.
C2_EvalBatchChangesNothing ==
    (last_batch # None /\ last_batch.phase = "eval") =>
        /\ last_batch.outcome = "ok"
        /\ global_step = last_batch.before.global_step
        /\ model.params = last_batch.before.model.params
        /\ model.grads = last_batch.before.model.grads
        /\ optimizer = last_batch.before.optimizer
        /\ scheduler = last_batch.before.scheduler
        /\ UpdateCalls(last_batch.calls) = <<>>

\* An eval batch on a runner on which run was never called.
C2_Witness ==
    /\ last_batch # None
    /\ last_batch.phase = "eval"
    /\ optimizer = None
    /\ last_batch.desc = Forward("text", 0)

\* C3: a run_batch call with a phase other than 'train' and 'eval' ends in the
\* unknown-phase KeyError, makes no forward pass or step, and leaves the
\* optimizer, the scheduler, global_step and the model as they were.
C3_UnknownPhaseRaises ==
    (last_batch # None /\ last_batch.phase \notin {"train", "eval"}) =>
        /\ last_batch.outcome = "KeyError_phase"
        /\ result = "KeyError_phase"
        /\ pc = "idle"
        /\ last_batch.calls = <<>>
        /\ global_step = last_batch.before.global_step
        /\ optimizer = last_batch.before.optimizer
        /\ scheduler = last_batch.before.scheduler
        /\ model = last_batch.before.model

\* An unknown phase passed to a runner that has an optimizer, a scheduler and
\* a positive global_step.
C3_Witness ==
    /\ last_batch # None
    /\ last_batch.phase = "test"
    /\ optimizer # None
    /\ scheduler # None
    /\ global_step > 0

\* C4: run called with an lr_scheduler_type outside the four known ones fails
\* with the unknown-scheduler KeyError before any epoch executes: no run_epoch
\* and no run_batch call is made.
C4_UnknownSchedulerRaises ==
    (call # None /\ call.op = "run"
        /\ call.lr_scheduler_type \notin
              {"constant", "constant_with_warmup", "linear", "cosine"}) =>
        /\ result = "KeyError_scheduler"
        /\ pc = "idle"
        /\ trace = <<>>
        /\ epoch_frame = None
        /\ epoch_result = None
        /\ last_batch = None

\* The floor of the exact product ratio * steps, for steps >= 0.
ExactFloor(ratio, steps) == (ratio.num * steps) \div ratio.den

\* C5, as stated: with a training loader of B batches, E epochs and a warmup
\* ratio r in [0, 1], run sets num_training_steps = B * E and num_warmup_steps =
\* floor(r * B * E), so 0 <= num_warmup_steps <= num_training_steps.
C5_WarmupStepsIsFloor ==
    (call # None /\ call.op = "run" /\ run_frame.dataloader_train # None) =>
        LET B == run_frame.dataloader_train.len
            r == call.warmup_ratio
        IN  /\ num_training_steps = B * call.epochs
            /\ num_warmup_steps * r.den <= r.num * B * call.epochs
            /\ r.num * B * call.epochs < (num_warmup_steps + 1) * r.den
            /\ 0 <= num_warmup_steps
            /\ num_warmup_steps <= num_training_steps

\* C5, amended: with a training loader of B batches, E epochs and a warmup
\* ratio r = k / d in [0, 1], run sets num_training_steps = B * E, and
\* num_warmup_steps is floor(r * B * E), or one less than it, which happens only
\* when r * B * E is a whole number and the float r is passed as lies below
\* k / d; it is never above floor(r * B * E), and 0 <= num_warmup_steps <=
\* num_training_steps.
C5_WarmupStepsTruncated ==
    (call # None /\ call.op = "run" /\ run_frame.dataloader_train # None) =>
        LET B == run_frame.dataloader_train.len
            r == call.warmup_ratio
            F == ExactFloor(r, B * call.epochs)
        IN  /\ num_training_steps = B * call.epochs
            /\ \/ num_warmup_steps = F
               \/ /\ num_warmup_steps = F - 1
                  /\ (r.num * B * call.epochs) % r.den = 0
                  /\ Float(r.num, r.den).cmp = "below"
            /\ 0 <= num_warmup_steps
            /\ num_warmup_steps <= num_training_steps

\* A completed run whose warmup_ratio * num_training_steps is a whole number in
\* exact arithmetic, and whose num_warmup_steps is one less.
C5_Witness ==
    /\ call # None
    /\ call.op = "run"
    /\ run_frame.dataloader_train # None
    /\ num_training_steps > 0
    /\ (call.warmup_ratio.num * num_training_steps) % call.warmup_ratio.den = 0
    /\ num_warmup_steps = ExactFloor(call.warmup_ratio, num_training_steps) - 1
    /\ result = "ok"

\* The loader run reads for the events of a trace named dl.
LoaderNamed(frame, dl) ==
    CASE dl = "train" -> frame.dataloader_train
      [] dl = "val" -> frame.dataloader_val
      [] dl = "test" -> frame.dataloader_test

\* C6: each of the three loaders is optional: for every subset of them that
\* is supplied, run with a known scheduler type completes without error and
\* executes epochs only for the supplied loaders.
C6_EveryLoaderOptional ==
    (call # None /\ call.op = "run" /\ pc = "idle"
        /\ call.lr_scheduler_type \in
              {"constant", "constant_with_warmup", "linear", "cosine"}) =>
        /\ result = "ok"
        /\ \A i \in DOMAIN trace : LoaderNamed(run_frame, trace[i].dl) # None

\* The train-phase run_batch calls of a trace.
TrainBatches(tr) ==
    Cardinality({i \in DOMAIN tr : tr[i].op = "run_batch" /\ tr[i].phase = "train"})

\* C7: global_step is 0 when a run call starts, on a new runner and on a used
\* one; during the run it is the number of train batches made so far, so it
\* never decreases and only train batches advance it; when the run
\* completes it is B * E = num_training_steps.
C7_GlobalStepCountsTrainBatches ==
    (call # None /\ call.op = "run") =>
        /\ global_step = TrainBatches(trace)
        /\ (pc = "idle" /\ result = "ok") =>
              /\ global_step = run_frame.dataloader_train.len * call.epochs
              /\ global_step = num_training_steps

\* The events of one run_epoch call on the loader named dl: its batches in
\* order, then, in eval phase, the evaluation; nothing when dl is not among
\* the loaders that count as supplied.
BatchEvents(dl, phase, n) ==
    [i \in 1..n |-> [op |-> "run_batch", dl |-> dl, phase |-> phase, batch |-> i - 1]]
EpochEvents(supplied, frame, dl, phase) ==
    IF dl \in supplied
    THEN BatchEvents(dl, phase, LoaderNamed(frame, dl).len)
         \o (IF phase = "eval"
             THEN <<[op |-> "evaluate_similarities", dl |-> dl, phase |-> phase,
                     batch |-> LoaderNamed(frame, dl).len]>>
             ELSE <<>>)
    ELSE <<>>

RECURSIVE Repeat(_, _)
Repeat(seq, n) == IF n = 0 THEN <<>> ELSE seq \o Repeat(seq, n - 1)

\* The events of a successful run in the order the claim gives: validation
\* and test once, then train, validation, test for each epoch.
ExpectedTrace(supplied, frame, epochs) ==
    EpochEvents(supplied, frame, "val", "eval")
    \o EpochEvents(supplied, frame, "test", "eval")
    \o Repeat(EpochEvents(supplied, frame, "train", "train")
              \o EpochEvents(supplied, frame, "val", "eval")
              \o EpochEvents(supplied, frame, "test", "eval"), epochs)

IsPrefix(a, b) == Len(a) <= Len(b) /\ SubSeq(b, 1, Len(a)) = a

\* The evaluations of loader dl in a trace; the first batches of its epochs.
Evaluations(tr, dl) ==
    Cardinality({i \in DOMAIN tr : tr[i].op = "evaluate_similarities" /\ tr[i].dl = dl})
Traversals(tr, dl) ==
    Cardinality({i \in DOMAIN tr :
        tr[i].op = "run_batch" /\ tr[i].dl = dl /\ tr[i].batch = 0})

\* The loaders that were passed to run; those of them that yield a batch.
Passed(frame) ==
    {dl \in {"train", "val", "test"} : LoaderNamed(frame, dl) # None}
NonEmpty(frame) ==
    {dl \in {"train", "val", "test"} :
        LoaderNamed(frame, dl) # None /\ LoaderNamed(frame, dl).len > 0}

\* C8 as stated: in a successful run every loader that was passed is
\* evaluated (validation, test: E + 1 times) or traversed (train: E times) in
\* the order validation, test, then train, validation, test per epoch.
C8_EverySuppliedLoaderRuns ==
    (call # None /\ call.op = "run" /\ pc = "idle" /\ result = "ok") =>
        /\ trace = ExpectedTrace(Passed(run_frame), run_frame, call.epochs)
        /\ "val" \in Passed(run_frame) => Evaluations(trace, "val") = call.epochs + 1
        /\ "test" \in Passed(run_frame) => Evaluations(trace, "test") = call.epochs + 1
        /\ "train" \in Passed(run_frame) => Traversals(trace, "train") = call.epochs

\* C8, amended: the same of every loader that was passed and yields at least
\* one batch; a loader without batches is skipped like an absent one.  While
\* the run executes its events are a prefix of that order.
C8_EveryNonEmptyLoaderRuns ==
    (call # None /\ call.op = "run" /\ result \in {"running", "ok"}) =>
        LET expected == ExpectedTrace(NonEmpty(run_frame), run_frame, call.epochs)
            times(dl, n) == IF dl \in NonEmpty(run_frame) THEN n ELSE 0
        IN  /\ IsPrefix(trace, expected)
            /\ (pc = "idle") =>
                  /\ trace = expected
                  /\ Evaluations(trace, "val") = times("val", call.epochs + 1)
                  /\ Evaluations(trace, "test") = times("test", call.epochs + 1)
                  /\ Traversals(trace, "train") = times("train", call.epochs)

\* A completed run of two epochs over three loaders that all yield batches,
\* the training loader two.
C8_Witness ==
    /\ call # None
    /\ call.op = "run"
    /\ pc = "idle"
    /\ result = "ok"
    /\ call.epochs = 2
    /\ NonEmpty(run_frame) = {"train", "val", "test"}
    /\ run_frame.dataloader_train.len = 2
    /\ Evaluations(trace, "val") = 3

\* The first validation result of a history with the greatest cosine_mrr.
FirstBest(history) ==
    LET top == CHOOSE i \in DOMAIN history :
                  /\ \A j \in DOMAIN history :
                        history[j].cosine_mrr <= history[i].cosine_mrr
                  /\ \A j \in 1..(i - 1) :
                        history[j].cosine_mrr < history[i].cosine_mrr
    IN  history[top]

C9_BestIsFirstMaximum ==
    (run_frame # None /\ val_history # <<>>) =>
        /\ run_frame.metrics_val_best # None
        /\ run_frame.metrics_val_best = FirstBest(val_history)

C9_BestNeverDecreases ==
    (run_frame # None /\ run_frame.metrics_val_best # None) =>
        /\ run_frame' # None
        /\ run_frame'.metrics_val_best # None
        /\ run_frame'.metrics_val_best.cosine_mrr >= run_frame.metrics_val_best.cosine_mrr

\* C9: after the initial validation and after every validation epoch the
\* tracked best result is the validation result of this run with the greatest
\* cosine_mrr, the earliest one on a tie; its cosine_mrr never decreases.
C9_BestTracksMaximum == []C9_BestIsFirstMaximum /\ [][C9_BestNeverDecreases]_vars

\* A completed run whose three validation results improved once, then tied.
C9_Witness ==
    /\ pc = "idle"
    /\ result = "ok"
    /\ Len(val_history) = 3
    /\ val_history[1].cosine_mrr = 0
    /\ val_history[2].cosine_mrr = 1
    /\ val_history[3].cosine_mrr = 1
    /\ run_frame.metrics_val_best = val_history[2]

\* The rows of the concatenated embeddings of n batches, in loader order.
ConcatenatedRows(input_type, n) == [i \in 1..n |-> <<input_type, i - 1>>]

\* What C10 says of a run_epoch call that has ended.
EpochContract ==
    /\ result = "ok"
    /\ epoch_result # None
    /\ epoch_result.desc_embeddings = ConcatenatedRows("text", call.len)
    /\ epoch_result.seq_embeddings = ConcatenatedRows("event", call.len)
    /\ IF call.phase = "eval"
       THEN /\ trace = BatchEvents("direct", "eval", call.len)
                       \o <<[op |-> "evaluate_similarities", dl |-> "direct",
                             phase |-> "eval", batch |-> call.len]>>
            /\ epoch_result.metrics # EmptyMetrics
            /\ epoch_result.metrics.cosine_mrr \in MrrValues
       ELSE /\ trace = BatchEvents("direct", "train", call.len)
            /\ epoch_result.metrics = EmptyMetrics

\* C10: run_epoch over a loader of B >= 0 batches, whose run_batch calls
\* return, calls run_batch once per batch in order and concatenates the
\* embeddings in that order; in eval phase it evaluates once, after the last
\* batch, on the concatenations and returns the metrics; in train phase it
\* never evaluates and returns an empty mapping; for every B, also B = 0.
C10_EpochOverAnyLoader ==
    (call # None /\ call.op = "run_epoch" /\ pc = "idle"
        /\ call.phase \in {"train", "eval"}
        /\ result \notin {"AttributeError", "ZeroDivisionError"}) => EpochContract

====
